---- MODULE Spec2Model ----
(***************************************************************************)
(* Credential-stuffing detection: the per-IP scoring engine, the detection *)
(* cycle and the sanction lifecycle of app/venv1/generate_access_logs.py   *)
(* (the producer process) and the reconciliation / manual-lift endpoints   *)
(* of app/dashboard.py (the consumer process).                             *)
(*                                                                         *)
(* Units: a score is an integer number of hundredths (86.00 is 8600); a    *)
(* datetime is an integer number of milliseconds.                          *)
(***************************************************************************)
EXTENDS Integers, Sequences, FiniteSets, TLC

VARIABLES
    now,            \* the wall clock both processes read (dt.now())
    events,         \* generate_live_logs: the producer's in-memory event list
    events_file,    \* events.json
    alerts_file,    \* alerts.json
    scores_file,    \* threat_scores.json
    sanctions_file, \* sanctions.json
    p_pc,           \* the producer's position
    p_local,        \* the producer's locals inside detect_threats_by_ip / save_json
    d_pc,           \* the dashboard request handler's position
    d_local,        \* the dashboard request handler's locals
    resp,           \* the last response the dashboard returned
    call            \* the last direct call of a function, or the last load_json of a
                    \* file another process may be writing, with what it returned

vars == <<now, events, events_file, alerts_file, scores_file, sanctions_file,
          p_pc, p_local, d_pc, d_local, resp, call>>

files == <<events_file, alerts_file, scores_file, sanctions_file>>

-----------------------------------------------------------------------------
(* Bounds of the model *)

\* how many times the producer appends events
MaxAppends == 2
\* how many times the clock advances
MaxTicks == 1
\* the longest event list a direct call of calculate_threat_score_ip is given
MaxCallEvents == 16

-----------------------------------------------------------------------------
(* Python values *)

\* None
None == -1

\* an event whose date/time strptime cannot parse
BadTime == -2

Min(a, b) == IF a < b THEN a ELSE b
Max(a, b) == IF a > b THEN a ELSE b

\* a sequence's last n elements: s[-n:]
Last(s, n) == IF Len(s) <= n THEN s ELSE SubSeq(s, Len(s) - n + 1, Len(s))

\* a sequence's first n elements: s[:n]
First(s, n) == IF Len(s) <= n THEN s ELSE SubSeq(s, 1, n)

\* list(a_set): the elements in the set's iteration order, which is fixed for a
\* given set within one process
RECURSIVE list(_)
list(S) ==
    IF S = {} THEN <<>>
    ELSE LET x == CHOOSE y \in S : TRUE IN <<x>> \o list(S \ {x})

\* sorted(a list of numbers)
RECURSIVE Insert(_, _)
Insert(x, s) ==
    IF s = <<>> THEN <<x>>
    ELSE IF x <= Head(s) THEN <<x>> \o s
    ELSE <<Head(s)>> \o Insert(x, Tail(s))

RECURSIVE sorted(_)
sorted(s) == IF s = <<>> THEN <<>> ELSE Insert(Head(s), sorted(Tail(s)))

RECURSIVE sum(_)
sum(s) == IF s = <<>> THEN 0 ELSE Head(s) + sum(Tail(s))

Range(s) == {s[i] : i \in DOMAIN s}

\* datetime.isoformat and datetime.fromisoformat: the text form of a datetime;
\* null is what a field holding None is stored as
isoformat(t) == <<"iso", t>>
null == <<"null">>
IsIsoText(x) == Len(x) = 2 /\ x[1] = "iso"
fromisoformat(x) == x[2]

\* strftime("%Y-%m-%d %H:%M:%S"): the datetime cut to whole seconds
strftime_seconds(t) == t \div 1000

-----------------------------------------------------------------------------
(* Configuration: generate_access_logs.py lines 27-80 and 399-432 *)

SCORING_WEIGHTS ==
    [failed_attempts |-> 2500, attack_speed |-> 2000, tool_detection |-> 1500,
     geographic_risk |-> 1000, user_spread |-> 1500, persistence |-> 1500]

DETECTION_CFG ==
    [BRUTE_FORCE_FAIL_THRESHOLD |-> 5,
     USER_SPREAD_THRESHOLD |-> 4,
     PERSISTENCE_MINUTES |-> 15,
     HIGH_VALUE_TARGETS |->
        <<"admin", "root", "security", "finance", "backup", "superuser", "dbadmin">>]

SUSPICIOUS_USER_AGENTS ==
    <<"hydra", "sqlmap", "masscan", "nikto", "nmap",
      "burp", "metasploit", "python-requests", "curl", "wget">>

HIGH_RISK_COUNTRIES == {"RU", "CN", "KP", "BR"}
MEDIUM_RISK_COUNTRIES == {"US", "MO"}

SANCTIONS ==
    [MEDIUM |-> [action |-> "RATE_LIMIT", duration_minutes |-> 60,
                 description |-> "Limitation du taux de requetes (1/5s)",
                 block |-> FALSE, rate_limit |-> "1/5s",
                 requires_manual_review |-> FALSE],
     HIGH |-> [action |-> "TEMPORARY_BLOCK", duration_minutes |-> 180,
               description |-> "Blocage temporaire (3 heures)",
               block |-> TRUE, rate_limit |-> "",
               requires_manual_review |-> FALSE],
     CRITICAL |-> [action |-> "PERMANENT_BLOCK", duration_minutes |-> None,
                   description |-> "Blocage permanent - Revision manuelle requise",
                   block |-> TRUE, rate_limit |-> "",
                   requires_manual_review |-> TRUE]]

LEGIT_USERS ==
    <<"ahmed", "sara", "mehdi", "ilias", "youssef", "fatima",
      "karim", "noura", "hassan", "amina", "samir", "leila",
      "mohamed", "sanae", "oussama">>

HIGH_VALUE_TARGETS ==
    DETECTION_CFG.HIGH_VALUE_TARGETS \o <<"operator", "itmanager", "developer">>

LOCAL_IPS == {"192.168.1.10", "192.168.1.15", "192.168.1.50", "10.0.0.7"}

\* ip_events[-200:]
RECENT_PER_IP == 200
\* events[-1000:]
DETECTION_WINDOW == 1000
\* events[-2000:]
EVENTS_CAPACITY == 2000
\* timedelta(minutes=1), in milliseconds
MinuteMs == 60 * 1000

\* the user agents of the model, each with the signatures its lower-cased text
\* contains (bot in ua.lower())
UA_HYDRA == "hydra/9.4 brute-force"
UA_CURL == "curl/8.1.2"
UA_CHROME == "Mozilla/5.0 (Windows NT 10.0; Win64; x64) Chrome/122.0"

ua_lower_contains(ua, bot) ==
    \/ ua = UA_HYDRA /\ bot = "hydra"
    \/ ua = UA_CURL /\ bot = "curl"

-----------------------------------------------------------------------------
(* Severity: generate_access_logs.py get_severity_level, and its copy in
   dashboard.py *)

get_severity_level_gt(score) ==
    IF score > 8600 THEN "CRITICAL"
    ELSE IF score > 6100 THEN "HIGH"
    ELSE IF score > 3100 THEN "MEDIUM"
    ELSE "LOW"

get_severity_level(score) ==
    IF score >= 8600 THEN "CRITICAL"
    ELSE IF score >= 6100 THEN "HIGH"
    ELSE IF score >= 3100 THEN "MEDIUM"
    ELSE "LOW"

dashboard_get_severity_level(score) ==
    IF score >= 8600 THEN "CRITICAL"
    ELSE IF score >= 6100 THEN "HIGH"
    ELSE IF score >= 3100 THEN "MEDIUM"
    ELSE "LOW"

-----------------------------------------------------------------------------
(* Scoring: generate_access_logs.py calculate_threat_score_ip *)

\* parse_datetime: the parsed datetime, or dt.now() when no format matches
parse_datetime(e, clock) == IF e.time = BadTime THEN clock ELSE e.time

\* min(max_weight, round(max_weight * (1 - math.exp(-over/3)), 2)) for
\* over = 1, 2, ...; it is 25.00 from over = 26 on
FAILED_ATTEMPTS_CURVE ==
    <<709, 1216, 1580, 1841, 2028, 2162, 2258, 2326, 2376, 2411, 2436, 2454, 2467,
      2476, 2483, 2488, 2491, 2494, 2496, 2497, 2498, 2498, 2499, 2499, 2499>>

failed_attempts_score(over) ==
    Min(SCORING_WEIGHTS.failed_attempts,
        IF over <= Len(FAILED_ATTEMPTS_CURVE) THEN FAILED_ATTEMPTS_CURVE[over]
        ELSE SCORING_WEIGHTS.failed_attempts)

\* the "Attack speed" block: the component and its reason, from the sorted times
attack_speed(times) ==
    IF Len(times) < 3 THEN [value |-> 0, reasons |-> <<>>]
    ELSE
        LET diffs == [i \in 1..(Len(times) - 1) |-> times[i + 1] - times[i]]
            diffs_sorted == sorted(diffs)
            n == Len(diffs_sorted)
            cut == Max(1, n \div 10)
            trimmed == IF n > 2 * cut THEN SubSeq(diffs_sorted, cut + 1, n - cut)
                       ELSE diffs_sorted
            total == sum(trimmed)
            k == Len(trimmed)
            w == SCORING_WEIGHTS.attack_speed
        IN  IF k = 0 THEN [value |-> 0, reasons |-> <<>>]
            \* avg < 0.25 seconds, avg being total / k milliseconds
            ELSE IF total < 250 * k THEN [value |-> w, reasons |-> <<"very_fast">>]
            ELSE IF total < 600 * k
                THEN [value |-> (w * 8) \div 10, reasons |-> <<"fast">>]
            ELSE IF total < 1500 * k
                THEN [value |-> (w * 5) \div 10, reasons |-> <<"moderate">>]
            ELSE [value |-> 0, reasons |-> <<>>]

\* the "Tool detection" loop over the user agents
tool_detection(user_agents) ==
    IF \E i \in DOMAIN user_agents : \E b \in DOMAIN SUSPICIOUS_USER_AGENTS :
            ua_lower_contains(user_agents[i], SUSPICIOUS_USER_AGENTS[b])
    THEN [value |-> SCORING_WEIGHTS.tool_detection, reasons |-> <<"tool">>]
    ELSE [value |-> 0, reasons |-> <<>>]

\* the "Geographic risk" loop over the countries, with its break
RECURSIVE geographic_risk(_, _, _)
geographic_risk(countries, geo_score, reasons) ==
    IF countries = <<>> THEN [value |-> geo_score, reasons |-> reasons]
    ELSE LET c == Head(countries) IN
        IF c \in HIGH_RISK_COUNTRIES
        THEN [value |-> Max(geo_score, SCORING_WEIGHTS.geographic_risk),
              reasons |-> Append(reasons, "high_risk_country")]
        ELSE IF c \in MEDIUM_RISK_COUNTRIES
        THEN geographic_risk(Tail(countries),
                             Max(geo_score, SCORING_WEIGHTS.geographic_risk \div 2),
                             Append(reasons, "medium_risk_country"))
        ELSE geographic_risk(Tail(countries), geo_score, reasons)

\* the "User spread" block
user_spread(num_users) ==
    LET w == SCORING_WEIGHTS.user_spread IN
    IF num_users >= 15 THEN [value |-> w, reasons |-> <<"credential_stuffing">>]
    ELSE IF num_users >= 8
        THEN [value |-> (w * 8) \div 10, reasons |-> <<"multiple_users">>]
    ELSE IF num_users >= DETECTION_CFG.USER_SPREAD_THRESHOLD
        THEN [value |-> (w * 5) \div 10, reasons |-> <<"several_users">>]
    ELSE [value |-> 0, reasons |-> <<>>]

\* the "Persistence" block, from the sorted times
persistence(times) ==
    IF Len(times) < 2 THEN [value |-> 0, reasons |-> <<>>]
    ELSE
        LET span_ms == times[Len(times)] - times[1]
            pers_weight == SCORING_WEIGHTS.persistence
        IN  IF span_ms >= DETECTION_CFG.PERSISTENCE_MINUTES * MinuteMs
                THEN [value |-> pers_weight, reasons |-> <<"persistent">>]
            ELSE IF 2 * span_ms >= DETECTION_CFG.PERSISTENCE_MINUTES * MinuteMs
                THEN [value |-> (pers_weight * 6) \div 10, reasons |-> <<"sustained">>]
            ELSE [value |-> 0, reasons |-> <<>>]

\* the "High value targets bonus" block: the user_spread component after it
hvt_bonus(spread, targeted_hvt) ==
    IF targeted_hvt # {} THEN Min(10000, spread + 500) ELSE spread

ZeroComponents ==
    [failed_attempts |-> 0, attack_speed |-> 0, tool_detection |-> 0,
     geographic_risk |-> 0, user_spread |-> 0, persistence |-> 0]

ComponentNames == DOMAIN ZeroComponents

\* sum(score_components.values())
components_sum(c) ==
    c.failed_attempts + c.attack_speed + c.tool_detection
        + c.geographic_risk + c.user_spread + c.persistence

calculate_threat_score_ip(evs, ip, clock) ==
    LET ip_events == SelectSeq(evs, LAMBDA e : e.ip = ip) IN
    IF ip_events = <<>>
    THEN [score |-> 0, reasons |-> <<>>, components |-> ZeroComponents, stats |-> <<>>]
    ELSE
    LET recent == Last(ip_events, RECENT_PER_IP)
        idx == DOMAIN recent
        num_fails == Cardinality({i \in idx : recent[i].status = "FAIL"})
        num_success == Cardinality({i \in idx : recent[i].status = "SUCCESS"})
        unique_users == {recent[i].user : i \in {j \in idx : recent[j].user # ""}}
        targeted_hvt == unique_users \cap Range(DETECTION_CFG.HIGH_VALUE_TARGETS)
        countries == {recent[i].country : i \in {j \in idx : recent[j].country # ""}}
        user_agents == {recent[i].ua : i \in {j \in idx : recent[j].ua # ""}}
        times == sorted([i \in idx |-> parse_datetime(recent[i], clock)])
        stats ==
            [total_attempts |-> Len(recent),
             failed_attempts |-> num_fails,
             success_attempts |-> num_success,
             unique_users |-> unique_users,
             countries |-> countries,
             user_agents |-> user_agents,
             targeted_hvt |-> targeted_hvt,
             first_seen |-> strftime_seconds(times[1]),
             last_seen |-> strftime_seconds(times[Len(times)])]
        fail_thresh == DETECTION_CFG.BRUTE_FORCE_FAIL_THRESHOLD
        fails ==
            IF num_fails >= fail_thresh
            THEN [value |-> failed_attempts_score(num_fails - (fail_thresh - 1)),
                  reasons |-> <<"failed_attempts">>]
            ELSE [value |-> 0, reasons |-> <<>>]
        speed == attack_speed(times)
        tool == tool_detection(list(user_agents))
        geo == geographic_risk(list(countries), 0, <<>>)
        spread == user_spread(Cardinality(unique_users))
        pers == persistence(times)
        components ==
            [failed_attempts |-> fails.value,
             attack_speed |-> speed.value,
             tool_detection |-> tool.value,
             geographic_risk |-> geo.value,
             user_spread |-> hvt_bonus(spread.value, targeted_hvt),
             persistence |-> pers.value]
        reasons ==
            fails.reasons \o speed.reasons \o tool.reasons \o geo.reasons
                \o spread.reasons \o pers.reasons
                \o (IF targeted_hvt # {} THEN <<"hvt_targeted">> ELSE <<>>)
    IN  [score |-> Min(components_sum(components), 10000),
         reasons |-> reasons,
         components |-> components,
         stats |-> stats]

-----------------------------------------------------------------------------
(* Persisted collections: load_json / save_json of both processes.  A file is
   absent, complete, or open for writing (truncated by open(path, "w") and not
   yet holding the whole document). *)

Empty == <<>>

NoFile == [exists |-> FALSE, complete |-> FALSE, data |-> Empty]

\* the file after open(path, "w") and before json.dump has written everything
Truncated == [exists |-> TRUE, complete |-> FALSE, data |-> Empty]

\* the file after a save_json that ran to its end
Saved(data) == [exists |-> TRUE, complete |-> TRUE, data |-> data]

\* generate_access_logs.py load_json: an absent file and a file json.load
\* rejects both give the empty collection
load_json(file) ==
    IF ~file.exists THEN Empty
    ELSE IF ~file.complete THEN Empty
    ELSE file.data

\* dashboard.py load_json
dashboard_load_json(file) ==
    IF ~file.exists THEN Empty
    ELSE IF ~file.complete THEN Empty
    ELSE file.data

\* d[key] = value
Put(d, key, value) == [k \in DOMAIN d \cup {key} |-> IF k = key THEN value ELSE d[k]]

\* f"{entity_type}:{value}"
Key(entity_type, value) == <<entity_type, value>>

-----------------------------------------------------------------------------
(* Sanctions: generate_access_logs.py apply_sanction *)

\* the record apply_sanction builds; an optional key it leaves out is ""
\* (rate_limit) or FALSE (requires_manual_review) here
new_sanction(entity_type, value, score, severity, reasons, components, clock) ==
    LET sanction_config == SANCTIONS[severity] IN
    [entity_type |-> entity_type,
     entity_value |-> value,
     score |-> score,
     severity |-> severity,
     action |-> sanction_config.action,
     description |-> sanction_config.description,
     blocked |-> sanction_config.block,
     active |-> TRUE,
     created_at |-> isoformat(clock),
     expires_at |->
        IF sanction_config.duration_minutes # None
                /\ sanction_config.duration_minutes # 0
        THEN isoformat(clock + sanction_config.duration_minutes * MinuteMs)
        ELSE null,
     reasons |-> First(reasons, 5),
     components |-> components,
     rate_limit |-> sanction_config.rate_limit,
     requires_manual_review |-> sanction_config.requires_manual_review]

\* apply_sanction keeping the active flag of the record it replaces
apply_sanction_merging(loaded, entity_type, value, score, severity, reasons, components, clock) ==
    IF severity \notin DOMAIN SANCTIONS
    THEN [save |-> FALSE, data |-> loaded]
    ELSE [save |-> TRUE,
          data |-> Put(loaded, Key(entity_type, value),
                       [new_sanction(entity_type, value, score, severity, reasons,
                                     components, clock)
                            EXCEPT !.active =
                                IF Key(entity_type, value) \in DOMAIN loaded
                                THEN loaded[Key(entity_type, value)].active
                                ELSE TRUE])]

\* apply_sanction with the HIGH row's duration for every severity
apply_sanction_one_row(loaded, entity_type, value, score, severity, reasons, components, clock) ==
    IF severity \notin DOMAIN SANCTIONS
    THEN [save |-> FALSE, data |-> loaded]
    ELSE [save |-> TRUE,
          data |-> Put(loaded, Key(entity_type, value),
                       [new_sanction(entity_type, value, score, severity, reasons,
                                     components, clock)
                            EXCEPT !.expires_at = isoformat(clock + 180 * MinuteMs)])]

\* apply_sanction from the loaded sanctions on: whether it saves, and what
apply_sanction(loaded, entity_type, value, score, severity, reasons, components, clock) ==
    IF severity \notin DOMAIN SANCTIONS
    THEN [save |-> FALSE, data |-> loaded]
    ELSE [save |-> TRUE,
          data |-> Put(loaded, Key(entity_type, value),
                       new_sanction(entity_type, value, score, severity, reasons,
                                    components, clock))]

-----------------------------------------------------------------------------
(* Reconciliation and manual lift: dashboard.py get_sanctions, remove_sanction *)

\* the loop body's tests, with active=false as one more reason to drop
dropped_or_inactive(entity, sanction, scores, clock) ==
    \/ entity \notin DOMAIN scores
    \/ scores[entity].score < 3100
    \/ /\ sanction.expires_at # null
       /\ IsIsoText(sanction.expires_at)
       /\ clock > fromisoformat(sanction.expires_at)
    \/ ~sanction.active

\* the loop body's tests, with an expiry that is only checked for blocking sanctions
dropped_blocking_only(entity, sanction, scores, clock) ==
    \/ entity \notin DOMAIN scores
    \/ scores[entity].score < 3100
    \/ /\ sanction.expires_at # null
       /\ sanction.blocked
       /\ clock > fromisoformat(sanction.expires_at)

\* the loop body's three "continue" tests for one stored sanction
dropped(entity, sanction, scores, clock) ==
    \/ entity \notin DOMAIN scores
    \/ scores[entity].score < 3100
    \/ /\ sanction.expires_at # null
       /\ IsIsoText(sanction.expires_at)
       /\ clock > fromisoformat(sanction.expires_at)

\* get_sanctions without the severity recomputation
get_sanctions_as_stored(sanctions, scores, clock) ==
    LET kept == {e \in DOMAIN sanctions : ~dropped(e, sanctions[e], scores, clock)}
    IN  [cleaned |-> [e \in kept |-> sanctions[e]],
         changed |-> kept # DOMAIN sanctions]

\* get_sanctions from the two loaded collections on: cleaned, and changed
get_sanctions(sanctions, scores, clock) ==
    LET kept == {e \in DOMAIN sanctions : ~dropped(e, sanctions[e], scores, clock)}
        correct_severity(e) == dashboard_get_severity_level(scores[e].score)
    IN  [cleaned |-> [e \in kept |->
                        [sanctions[e] EXCEPT !.severity = correct_severity(e)]],
         changed |-> \/ kept # DOMAIN sanctions
                     \/ \E e \in kept : sanctions[e].severity # correct_severity(e)]

\* remove_sanction that deletes the record it lifts
remove_sanction_deleting(sanctions, s_type, value) ==
    LET key == Key(s_type, value) IN
    IF s_type = "" \/ value = "" THEN [status |-> 400, save |-> FALSE, data |-> sanctions]
    ELSE IF key \notin DOMAIN sanctions
        THEN [status |-> 404, save |-> FALSE, data |-> sanctions]
    ELSE [status |-> 200, save |-> TRUE,
          data |-> [k \in DOMAIN sanctions \ {key} |-> sanctions[k]]]

\* remove_sanction that saves what it loaded when the key is unknown
remove_sanction_saving(sanctions, s_type, value) ==
    LET key == Key(s_type, value) IN
    IF s_type = "" \/ value = "" THEN [status |-> 400, save |-> FALSE, data |-> sanctions]
    ELSE IF key \notin DOMAIN sanctions
        THEN [status |-> 404, save |-> TRUE, data |-> sanctions]
    ELSE [status |-> 200, save |-> TRUE,
          data |-> [sanctions EXCEPT ![key].active = FALSE]]

\* remove_sanction from the loaded sanctions on: the status, whether it saves, what
remove_sanction(sanctions, s_type, value) ==
    LET key == Key(s_type, value) IN
    IF s_type = "" \/ value = "" THEN [status |-> 400, save |-> FALSE, data |-> sanctions]
    ELSE IF key \notin DOMAIN sanctions
        THEN [status |-> 404, save |-> FALSE, data |-> sanctions]
    ELSE [status |-> 200, save |-> TRUE,
          data |-> [sanctions EXCEPT ![key].active = FALSE]]

-----------------------------------------------------------------------------
(* The event producer: generate_access_logs.py generate_live_logs and its
   generators.  One append adds a run of events from one IP, stamped from the
   producer's running timestamp on, and saves the list. *)

IP_A == "45.12.7.9"
IP_B == "185.22.3.4"
IP_LOCAL == "192.168.1.10"

\* LEGIT_USERS + HIGH_VALUE_TARGETS
users_pool == LEGIT_USERS \o HIGH_VALUE_TARGETS

\* the user a generator draws for the k-th event it adds to a list of `base`
\* events (random.choice(users_pool))
drawn_user(base, k) == users_pool[(((base + k) * 6) % Len(users_pool)) + 1]

\* the runs the model appends: events, the gap before the run and between its
\* events in milliseconds, and what each event carries
Profiles ==
    [stuffing |-> [attempts |-> 5, lead |-> 16 * MinuteMs, delta |-> 100,
                   ua |-> UA_HYDRA, country |-> "RU", status |-> "FAIL", user |-> ""],
     probe |-> [attempts |-> 3, lead |-> 100, delta |-> 100,
                ua |-> UA_CURL, country |-> "FR", status |-> "SUCCESS",
                user |-> "ahmed"],
     slow |-> [attempts |-> 2, lead |-> 5000, delta |-> 5000,
               ua |-> UA_CURL, country |-> "FR", status |-> "SUCCESS",
               user |-> "ahmed"]]

Appendable ==
    {<<IP_A, pr>> : pr \in DOMAIN Profiles}
        \cup {<<IP_B, "probe">>, <<IP_LOCAL, "stuffing">>}

\* the producer's running timestamp: where the last event left it
timestamp(evs) == IF evs = <<>> THEN 0 ELSE evs[Len(evs)].time

\* the events one generator call appends
generated(base, ip, pr, clock) ==
    LET p == Profiles[pr] IN
    [k \in 1..p.attempts |->
        [ip |-> ip,
         user |-> IF p.user = "" THEN drawn_user(base, k) ELSE p.user,
         status |-> p.status,
         ua |-> p.ua,
         country |-> p.country,
         time |-> clock + p.lead + (k - 1) * p.delta]]

\* the producer's locals outside detect_threats_by_ip; `saving` is the document a
\* save_json in progress writes, with what the file held when it was opened
NotSaving == [before |-> Empty, data |-> Empty]

IdleLocal(appends) ==
    [appends |-> appends, alerts |-> Empty, scores |-> Empty, alerted_ips |-> {},
     todo |-> <<>>, evaluated |-> Empty, saving |-> NotSaving]

\* generate_live_logs, one iteration up to save_json(EVENTS_FILE, events)
AppendEvents(ip, pr) ==
    /\ p_pc = "idle"
    /\ p_local.appends < MaxAppends
    /\ events' = Last(events \o generated(Len(events), ip, pr, timestamp(events)), EVENTS_CAPACITY)
    /\ events_file' = Saved(events')
    /\ p_local' = [p_local EXCEPT !.appends = @ + 1]
    /\ UNCHANGED <<now, alerts_file, scores_file, sanctions_file, p_pc, d_pc, d_local,
                   resp, call>>

\* minutes the clock advances in one step: just past the shortest sanction
TickMinutes == SANCTIONS.MEDIUM.duration_minutes + 1

\* time passes while the producer sleeps between two iterations of its loop
Tick ==
    /\ p_pc = "idle"
    /\ now < MaxTicks * TickMinutes * MinuteMs
    /\ now' = now + TickMinutes * MinuteMs
    /\ UNCHANGED <<events, files, p_pc, p_local, d_pc, d_local, resp, call>>

-----------------------------------------------------------------------------
(* The Detection Cycle: generate_access_logs.py detect_threats_by_ip *)

\* the keys of ip_groups in insertion order: the IPs of `latest`, local ones left
\* out, in order of first appearance
group_order(latest, seen) ==
    LET ips == {latest[i].ip : i \in DOMAIN latest} \ (LOCAL_IPS \cup seen \cup {""})
        first(ip) == CHOOSE i \in DOMAIN latest :
                        latest[i].ip = ip /\ \A j \in 1..(i - 1) : latest[j].ip # ip
        RECURSIVE by_first(_)
        by_first(S) ==
            IF S = {} THEN <<>>
            ELSE LET ip == CHOOSE x \in S : \A y \in S : first(x) <= first(y)
                 IN  <<ip>> \o by_first(S \ {ip})
    IN  by_first(ips)

\* ip_groups[ip]
ip_group(latest, ip) == SelectSeq(latest, LAMBDA e : e.ip = ip)

\* the IPs the loop does not skip: those with at least 3 events in `latest`
qualifying(latest) ==
    SelectSeq(group_order(latest, {}), LAMBDA ip : Len(ip_group(latest, ip)) >= 3)

\* the ThreatScore record the loop stores
score_record(ip, r) ==
    [entity_type |-> "IP", entity_value |-> ip, score |-> r.score,
     severity |-> get_severity_level(r.score), reasons |-> r.reasons,
     components |-> r.components, stats |-> r.stats]

\* the alert the loop appends
alert_record(ip, r, sample) ==
    [type |-> "Threat Detection", ip |-> ip, score |-> r.score,
     severity |-> get_severity_level(r.score), reasons |-> First(r.reasons, 3),
     total_attempts |-> r.stats.total_attempts,
     failed_attempts |-> r.stats.failed_attempts,
     unique_users |-> Cardinality(r.stats.unique_users),
     countries |-> r.stats.countries,
     time |-> sample.time]

\* the loop's test before it appends an alert, without the set of alerted IPs
needs_alert_always(ip, alerted_ips) == TRUE

\* the loop's test before it appends an alert
needs_alert(ip, alerted_ips) == ip \notin alerted_ips

\* detect_threats_by_ip from its start to the loop: the two loads, the grouping
CycleBegin ==
    /\ p_pc = "idle"
    /\ LET alerts == load_json(alerts_file)
           latest == Last(events, DETECTION_WINDOW)
       IN  p_local' = [p_local EXCEPT
                !.alerts = alerts,
                !.scores = load_json(scores_file),
                !.alerted_ips = {alerts[i].ip : i \in
                                    {j \in DOMAIN alerts : alerts[j].type = "Threat Detection"}},
                !.todo = qualifying(latest),
                !.evaluated = Empty]
    /\ p_pc' = "cycle"
    /\ UNCHANGED <<now, events, files, d_pc, d_local, resp, call>>

\* one iteration of the loop, apply_sanction included
CycleIP ==
    /\ p_pc = "cycle"
    /\ p_local.todo # <<>>
    /\ LET ip == Head(p_local.todo)
           ip_events == ip_group(Last(events, DETECTION_WINDOW), ip)
           r == calculate_threat_score_ip(events, ip, now)
           severity == get_severity_level(r.score)
           applied == apply_sanction(load_json(sanctions_file), "IP", ip, r.score,
                                     severity, r.reasons, r.components, now)
       IN  IF r.score >= 3100
           THEN /\ p_local' = [p_local EXCEPT
                        !.scores = Put(@, Key("IP", ip), score_record(ip, r)),
                        !.alerts = IF needs_alert(ip, p_local.alerted_ips)
                                   THEN Append(@, alert_record(ip, r,
                                                    ip_events[Len(ip_events)]))
                                   ELSE @,
                        !.alerted_ips = @ \cup {ip},
                        !.todo = Tail(@),
                        !.evaluated = Put(@, ip, score_record(ip, r))]
                /\ sanctions_file' = IF applied.save THEN Saved(applied.data)
                                     ELSE sanctions_file
           ELSE /\ p_local' = [p_local EXCEPT
                        !.todo = Tail(@),
                        !.evaluated = Put(@, ip, score_record(ip, r))]
                /\ UNCHANGED sanctions_file
    /\ UNCHANGED <<now, events, events_file, alerts_file, scores_file, p_pc, d_pc,
                   d_local, resp, call>>

\* the two saves that end detect_threats_by_ip
cycle_saves ==
    /\ p_pc = "cycle"
    /\ p_local.todo = <<>>
    /\ alerts_file' = Saved(p_local.alerts)
    /\ scores_file' = Saved(p_local.scores)
    /\ p_pc' = "idle"
    /\ p_local' = IdleLocal(p_local.appends)
    /\ UNCHANGED <<now, events, events_file, sanctions_file, d_pc, d_local, resp>>

CycleEnd == cycle_saves /\ UNCHANGED call

-----------------------------------------------------------------------------
(* The dashboard's requests, each served in one step *)

\* the request handler's locals between requests
DashboardIdle == [sanctions |-> Empty, key |-> Key("", ""), saving |-> NotSaving]

NoResponse == [op |-> "none", status |-> 0, key |-> Key("", ""), body |-> Empty]

\* GET /api/sanctions
GetSanctions ==
    /\ d_pc = "idle"
    /\ LET r == get_sanctions(dashboard_load_json(sanctions_file),
                              dashboard_load_json(scores_file), now)
       IN  /\ sanctions_file' = IF r.changed THEN Saved(r.cleaned) ELSE sanctions_file
           /\ resp' = [op |-> "get_sanctions", status |-> 200, key |-> Key("", ""),
                       body |-> r.cleaned]
    /\ UNCHANGED <<now, events, events_file, alerts_file, scores_file, p_pc, p_local,
                   d_pc, d_local, call>>

\* the (type, value) pairs the model posts to /api/remove-sanction
LiftRequests == {<<"IP", IP_A>>, <<"", IP_A>>}

\* POST /api/remove-sanction
RemoveSanction(s_type, value) ==
    /\ d_pc = "idle"
    /\ LET r == remove_sanction(dashboard_load_json(sanctions_file), s_type, value)
       IN  /\ sanctions_file' = IF r.save THEN Saved(r.data) ELSE sanctions_file
           /\ resp' = [op |-> "remove_sanction", status |-> r.status,
                       key |-> Key(s_type, value), body |-> Empty]
    /\ UNCHANGED <<now, events, events_file, alerts_file, scores_file, p_pc, p_local,
                   d_pc, d_local, call>>

-----------------------------------------------------------------------------
(* The system: one producer, one dashboard, handlers served one at a time *)

Init ==
    /\ now = 0
    /\ events = <<>>
    /\ events_file = NoFile
    /\ alerts_file = NoFile
    /\ scores_file = NoFile
    /\ sanctions_file = NoFile
    /\ p_pc = "idle"
    /\ p_local = IdleLocal(0)
    /\ d_pc = "idle"
    /\ d_local = DashboardIdle
    /\ resp = NoResponse
    /\ call = [fn |-> "none"]

Next ==
    \/ \E a \in Appendable : AppendEvents(a[1], a[2])
    \/ Tick
    \/ CycleBegin
    \/ CycleIP
    \/ CycleEnd
    \/ GetSanctions
    \/ \E q \in LiftRequests : RemoveSanction(q[1], q[2])

Spec == Init /\ [][Next]_vars

-----------------------------------------------------------------------------
(* Properties of the detection cycle, reconciliation and manual lift *)

PersistedAlerts == load_json(alerts_file)
PersistedScores == load_json(scores_file)
PersistedSanctions == load_json(sanctions_file)

\* the sanction's expiry time has passed
Expired(sanction, clock) ==
    sanction.expires_at # null /\ fromisoformat(sanction.expires_at) < clock

\* C3: in every reachable state the persisted alerts hold at most one alert of
\* type "Threat Detection" per IP
C3_OneAlertPerIP ==
    \A i, j \in DOMAIN PersistedAlerts :
        /\ PersistedAlerts[i].type = "Threat Detection"
        /\ PersistedAlerts[j].type = "Threat Detection"
        /\ PersistedAlerts[i].ip = PersistedAlerts[j].ip
        => i = j

\* an alerted IP was detected again with another score, and the cycle has ended
C3_Witness ==
    /\ p_pc = "idle"
    /\ \E i \in DOMAIN PersistedAlerts :
        LET key == Key("IP", PersistedAlerts[i].ip) IN
        /\ key \in DOMAIN PersistedScores
        /\ PersistedScores[key].score # PersistedAlerts[i].score
        /\ PersistedScores[key].severity # PersistedAlerts[i].severity

\* C5: a reconciliation pass returns and leaves persisted exactly the stored
\* sanctions whose key has a ThreatScore of at least 31 and whose expiry, if any,
\* has not passed
C5_Reconciliation ==
    [][GetSanctions =>
        LET before == PersistedSanctions
            survivors == {e \in DOMAIN before :
                            /\ e \in DOMAIN PersistedScores
                            /\ PersistedScores[e].score >= 3100
                            /\ ~Expired(before[e], now)}
        IN  /\ DOMAIN resp'.body = survivors
            /\ DOMAIN PersistedSanctions' = survivors
            /\ resp'.body = PersistedSanctions']_vars

\* a pass has returned one sanction and dropped the expired one of another
\* scored IP
C5_Witness ==
    /\ resp.op = "get_sanctions"
    /\ resp.body = PersistedSanctions
    /\ resp.body # Empty
    /\ p_pc = "idle"
    /\ \E e \in DOMAIN PersistedScores : e \notin DOMAIN resp.body

\* C8: a detection cycle that scores an IP at 31 or more while the IP's sanction
\* is lifted (active=false) replaces it by a sanction created now with active=true
C8_LiftedSanctionResurrected ==
    [][CycleIP =>
        LET ip == Head(p_local.todo)
            key == Key("IP", ip)
        IN  /\ key \in DOMAIN PersistedSanctions
            /\ ~PersistedSanctions[key].active
            /\ p_local'.evaluated[ip].score >= 3100
            => /\ key \in DOMAIN PersistedSanctions'
               /\ PersistedSanctions'[key].active
               /\ PersistedSanctions'[key].created_at = isoformat(now)
               /\ PersistedSanctions'[key].score = p_local'.evaluated[ip].score]_vars

\* the last request lifted a sanction, and the sanction is active again
C8_Witness ==
    /\ resp.op = "remove_sanction"
    /\ resp.status = 200
    /\ resp.key \in DOMAIN PersistedSanctions
    /\ PersistedSanctions[resp.key].active

\* C9: a manual lift of a key the Sanctions collection does not hold answers
\* NotFound (404) and leaves the four persisted collections as they were,
\* saving nothing
C9_LiftUnknownKey ==
    [][\A q \in LiftRequests :
        /\ RemoveSanction(q[1], q[2])
        /\ q[1] # "" /\ q[2] # ""
        /\ Key(q[1], q[2]) \notin DOMAIN PersistedSanctions
        => /\ resp'.status = 404
           /\ UNCHANGED files]_vars

\* a lift was answered NotFound while another IP's sanction is stored
C9_Witness ==
    /\ resp.op = "remove_sanction"
    /\ resp.status = 404
    /\ resp.key \notin DOMAIN PersistedSanctions
    /\ PersistedSanctions # Empty

\* C10: a manual lift of a stored key sets that sanction's active flag to false
\* and changes nothing else; a reconciliation pass keeps a sanction with
\* active=false whose ThreatScore exists with a score of at least 31 and whose
\* expiry has not passed
C10_LiftOnlyClearsActive ==
    [][/\ \A q \in LiftRequests :
            /\ RemoveSanction(q[1], q[2])
            /\ q[1] # "" /\ q[2] # ""
            /\ Key(q[1], q[2]) \in DOMAIN PersistedSanctions
            => /\ PersistedSanctions' =
                    [PersistedSanctions EXCEPT ![Key(q[1], q[2])].active = FALSE]
               /\ UNCHANGED <<events_file, alerts_file, scores_file>>
               /\ resp'.status = 200
       /\ GetSanctions =>
            \A e \in DOMAIN PersistedSanctions :
                /\ ~PersistedSanctions[e].active
                /\ e \in DOMAIN PersistedScores
                /\ PersistedScores[e].score >= 3100
                /\ ~Expired(PersistedSanctions[e], now)
                => /\ e \in DOMAIN PersistedSanctions'
                   /\ ~PersistedSanctions'[e].active]_vars

\* a reconciliation pass has returned a lifted sanction beside an active one
C10_Witness ==
    /\ resp.op = "get_sanctions"
    /\ resp.body = PersistedSanctions
    /\ \E e, f \in DOMAIN resp.body : ~resp.body[e].active /\ resp.body[f].active

\* C6: when a detection cycle ends, the persisted ThreatScore of every IP it
\* evaluated, if there is one, is the record computed in that cycle
C6_ScoreIsThisCycles ==
    [][CycleEnd =>
        \A ip \in DOMAIN p_local.evaluated :
            Key("IP", ip) \in DOMAIN PersistedScores'
            => PersistedScores'[Key("IP", ip)] = p_local.evaluated[ip]]_vars

-----------------------------------------------------------------------------
(* Direct calls of the classifier and of the scorer, one per behaviour, on
   inputs drawn from bounded sets *)

\* the event lists a direct call scores: n events of IP_A, the first `fails` of
\* them failed, from `users` users in turn (the first of them a high-value
\* target when hvt), the first event `lead` milliseconds before the others,
\* which are `gap` milliseconds apart
call_events(n, users, hvt, fails, lead, gap, ua, country) ==
    [i \in 1..n |->
        [ip |-> IP_A,
         user |-> IF hvt /\ (i - 1) % users = 0 THEN "admin"
                  ELSE LEGIT_USERS[((i - 1) % users) + 1],
         status |-> IF i <= fails THEN "FAIL" ELSE "SUCCESS",
         ua |-> ua,
         country |-> country,
         time |-> IF i = 1 THEN 0 ELSE lead + i * gap]]

CallUsers == {1, 4, 8, 15}
CallFails == {0, 5, MaxCallEvents}
CallLeads == {0, 16 * MinuteMs}
CallGaps == {100, 1000, 3 * MinuteMs}
CallAgents == {UA_HYDRA, UA_CHROME}
CallCountries == {"RU", "US", "FR"}

CallClassify(score) ==
    /\ call' = [fn |-> "get_severity_level", score |-> score,
                engine |-> get_severity_level(score),
                dashboard |-> dashboard_get_severity_level(score)]
    /\ UNCHANGED <<now, events, files, p_pc, p_local, d_pc, d_local, resp>>

CallScore(evs, ip) ==
    /\ call' = [fn |-> "calculate_threat_score_ip", events |-> evs, ip |-> ip,
                result |-> calculate_threat_score_ip(evs, ip, now)]
    /\ UNCHANGED <<now, events, files, p_pc, p_local, d_pc, d_local, resp>>

\* no direct call was made yet
NoCallYet == call.fn = "none"

ClassifyOnce ==
    /\ NoCallYet
    /\ \E score \in 0..10000 : CallClassify(score)

ScoreOnce ==
    /\ NoCallYet
    /\ \E n \in 0..MaxCallEvents, users \in CallUsers, hvt \in BOOLEAN,
          fails \in CallFails, lead \in CallLeads, gap \in CallGaps,
          ua \in CallAgents, country \in CallCountries :
            CallScore(call_events(n, users, hvt, fails, lead, gap, ua, country), IP_A)

\* the score of an IP the list holds no event of
ScoreAbsentIpOnce ==
    /\ NoCallYet
    /\ CallScore(call_events(3, 1, FALSE, 0, 0, 100, UA_HYDRA, "RU"), IP_B)

\* the event list with the date/time text of event i unparsable
unparsable_at(evs, i) == [evs EXCEPT ![i].time = BadTime]

\* what dt.now() is when a list is scored some time after its events
CallClocks == {20 * MinuteMs}

\* a list with one event whose date/time does not parse, scored at a later time
ScoreUnparsableOnce ==
    /\ NoCallYet
    /\ \E n \in 1..MaxCallEvents, i \in 1..MaxCallEvents, gap \in CallGaps,
          clock \in CallClocks :
        /\ i \in {1, n}
        /\ now' = clock
        /\ LET evs == unparsable_at(
                        call_events(n, 1, FALSE, 0, 0, gap, UA_CHROME, "FR"), i)
           IN  call' = [fn |-> "calculate_threat_score_ip", events |-> evs,
                        ip |-> IP_A,
                        result |-> calculate_threat_score_ip(evs, IP_A, now')]
    /\ UNCHANGED <<events, files, p_pc, p_local, d_pc, d_local, resp>>

\* 4 events of one IP, all SUCCESS, one user, country "FR", a browser's user
\* agent, 3 minutes apart
quiet_events ==
    [i \in 1..4 |->
        [ip |-> IP_A, user |-> "ahmed", status |-> "SUCCESS", ua |-> UA_CHROME,
         country |-> "FR", time |-> (i - 1) * 3 * MinuteMs]]

ScoreQuietOnce ==
    /\ NoCallYet
    /\ CallScore(quiet_events, IP_A)

NextScore ==
    \/ ClassifyOnce
    \/ ScoreOnce
    \/ ScoreAbsentIpOnce
    \/ ScoreUnparsableOnce
    \/ ScoreQuietOnce

SpecScore == Init /\ [][NextScore]_vars

\* C1: the classifier returns CRITICAL iff score >= 86, HIGH iff 61 <= score < 86,
\* MEDIUM iff 31 <= score < 61 and LOW iff score < 31, and the dashboard's
\* classifier returns the same tier
C1_SeverityThresholds ==
    call.fn = "get_severity_level" =>
        /\ (call.engine = "CRITICAL") <=> (call.score >= 8600)
        /\ (call.engine = "HIGH") <=> (6100 <= call.score /\ call.score < 8600)
        /\ (call.engine = "MEDIUM") <=> (3100 <= call.score /\ call.score < 6100)
        /\ (call.engine = "LOW") <=> (call.score < 3100)
        /\ call.dashboard = call.engine

\* 86.00 was classified, as CRITICAL
C1_Witness ==
    /\ call.fn = "get_severity_level"
    /\ call.score = 8600
    /\ call.engine = "CRITICAL"
    /\ call.dashboard = "CRITICAL"

\* C2: every component of a computed score lies between 0 and its weight, and
\* the total is min(100, sum of the components)
C2_ComponentsWithinWeights ==
    call.fn = "calculate_threat_score_ip" =>
        /\ \A c \in ComponentNames :
            /\ call.result.components[c] >= 0
            /\ call.result.components[c] <= SCORING_WEIGHTS[c]
        /\ call.result.score = Min(10000, components_sum(call.result.components))

\* the part of C2 about the total alone
C2_TotalIsCappedSum ==
    call.fn = "calculate_threat_score_ip" =>
        call.result.score = Min(10000, components_sum(call.result.components))

\* a score of a list that targets a high-value account, its sum above 100
C2_Witness ==
    /\ call.fn = "calculate_threat_score_ip"
    /\ call.result.stats # Empty
    /\ call.result.stats.targeted_hvt # {}
    /\ components_sum(call.result.components) > 10000
    /\ call.result.score = 10000

-----------------------------------------------------------------------------
(* Direct calls of apply_sanction, with any severity, as time passes *)

CallSeverities == {"LOW", "MEDIUM", "HIGH", "CRITICAL"}
CallScores == {1500, 8600}
CallReasons ==
    <<"failed_attempts", "very_fast", "tool", "high_risk_country",
      "credential_stuffing", "persistent", "hvt_targeted">>

CallApplySanction(value, score, severity) ==
    /\ LET applied == apply_sanction(load_json(sanctions_file), "IP", value, score,
                                     severity, CallReasons, ZeroComponents, now)
       IN  sanctions_file' = IF applied.save THEN Saved(applied.data)
                             ELSE sanctions_file
    /\ call' = [fn |-> "apply_sanction", value |-> value, score |-> score,
                severity |-> severity]
    /\ UNCHANGED <<now, events, events_file, alerts_file, scores_file, p_pc, p_local,
                   d_pc, d_local, resp>>

NextSanction ==
    \/ \E value \in {IP_A, IP_B}, score \in CallScores, severity \in CallSeverities :
            CallApplySanction(value, score, severity)
    \/ Tick

SpecSanction == Init /\ [][NextSanction]_vars

\* the policy row of each severity, as the claim states it
PolicyRow(sanction, severity, clock) ==
    \/ /\ severity = "MEDIUM"
       /\ sanction.action = "RATE_LIMIT"
       /\ sanction.blocked = FALSE
       /\ sanction.expires_at = isoformat(clock + 60 * MinuteMs)
       /\ sanction.rate_limit = "1/5s"
    \/ /\ severity = "HIGH"
       /\ sanction.action = "TEMPORARY_BLOCK"
       /\ sanction.blocked = TRUE
       /\ sanction.expires_at = isoformat(clock + 180 * MinuteMs)
    \/ /\ severity = "CRITICAL"
       /\ sanction.action = "PERMANENT_BLOCK"
       /\ sanction.blocked = TRUE
       /\ sanction.expires_at = null
       /\ sanction.requires_manual_review = TRUE

\* C4: apply_sanction with severity MEDIUM, HIGH or CRITICAL leaves under the
\* entity's key a sanction created now, active, holding the policy row of that
\* severity, and leaves every other key as it was; with another severity it
\* leaves the Sanctions collection unchanged
C4_SanctionPolicy ==
    [][/\ call'.fn = "apply_sanction"
       /\ CallApplySanction(call'.value, call'.score, call'.severity)
       => LET key == Key("IP", call'.value)
              score == call'.score
              severity == call'.severity
          IN
            IF severity \in {"MEDIUM", "HIGH", "CRITICAL"}
            THEN /\ DOMAIN PersistedSanctions' = DOMAIN PersistedSanctions \cup {key}
                 /\ PersistedSanctions'[key].active = TRUE
                 /\ PersistedSanctions'[key].created_at = isoformat(now)
                 /\ PersistedSanctions'[key].severity = severity
                 /\ PersistedSanctions'[key].score = score
                 /\ PolicyRow(PersistedSanctions'[key], severity, now)
                 /\ \A k \in DOMAIN PersistedSanctions \ {key} :
                        PersistedSanctions'[k] = PersistedSanctions[k]
            ELSE sanctions_file' = sanctions_file]_vars

\* an apply_sanction with severity LOW has left a stored CRITICAL sanction and a
\* stored MEDIUM sanction as they were
C4_Witness ==
    /\ call.fn = "apply_sanction"
    /\ call.severity = "LOW"
    /\ \E k, m \in DOMAIN PersistedSanctions :
        /\ PersistedSanctions[k].severity = "CRITICAL"
        /\ PersistedSanctions[k].requires_manual_review
        /\ PersistedSanctions[m].severity = "MEDIUM"
        /\ PersistedSanctions[m].rate_limit = "1/5s"

-----------------------------------------------------------------------------
(* The two processes step by step: every load_json and every save_json is a
   step of its own, and a save_json is two, open(path, "w") that truncates the
   file and json.dump that fills it.  The clock stands still. *)

\* how many times the producer appends events in this specification
MaxConcAppends == 1

\* what a load_json of `file` sees, with the document the file held before the
\* write in progress (if any) and the one the write will leave
Observed(reader, name, file, result, writer_saving) ==
    [fn |-> "load_json", reader |-> reader, file |-> name, result |-> result,
     before |-> IF file.exists /\ ~file.complete THEN writer_saving.before ELSE result,
     after |-> IF file.exists /\ ~file.complete THEN writer_saving.data ELSE result]

\* save_json up to open(path, "w")
Opening(file, data) == [before |-> load_json(file), data |-> data]

\* generate_live_logs: the append, and save_json(EVENTS_FILE, events) up to open
PAppendOpen(ip, pr) ==
    /\ p_pc = "idle"
    /\ p_local.appends < MaxConcAppends
    /\ events' = Last(events \o generated(Len(events), ip, pr, timestamp(events)),
                      EVENTS_CAPACITY)
    /\ events_file' = Truncated
    /\ p_local' = [p_local EXCEPT !.appends = @ + 1,
                                  !.saving = Opening(events_file, events')]
    /\ p_pc' = "events_write"
    /\ UNCHANGED <<now, alerts_file, scores_file, sanctions_file, d_pc, d_local,
                   resp, call>>

PEventsWritten ==
    /\ p_pc = "events_write"
    /\ events_file' = Saved(p_local.saving.data)
    /\ p_local' = [p_local EXCEPT !.saving = NotSaving]
    /\ p_pc' = "idle"
    /\ UNCHANGED <<now, events, alerts_file, scores_file, sanctions_file, d_pc,
                   d_local, resp, call>>

\* one iteration of the loop up to apply_sanction's load_json(SANCTIONS_FILE)
PCycleIP ==
    /\ p_pc = "cycle"
    /\ p_local.todo # <<>>
    /\ LET ip == Head(p_local.todo)
           ip_events == ip_group(Last(events, DETECTION_WINDOW), ip)
           r == calculate_threat_score_ip(events, ip, now)
           severity == get_severity_level(r.score)
           loaded == load_json(sanctions_file)
           applied == apply_sanction(loaded, "IP", ip, r.score, severity, r.reasons,
                                     r.components, now)
       IN  IF r.score >= 3100
           THEN /\ p_local' = [p_local EXCEPT
                        !.scores = Put(@, Key("IP", ip), score_record(ip, r)),
                        !.alerts = IF needs_alert(ip, p_local.alerted_ips)
                                   THEN Append(@, alert_record(ip, r,
                                                    ip_events[Len(ip_events)]))
                                   ELSE @,
                        !.alerted_ips = @ \cup {ip},
                        !.todo = Tail(@),
                        !.evaluated = Put(@, ip, score_record(ip, r)),
                        !.saving = [before |-> Empty, data |-> applied.data]]
                /\ p_pc' = IF applied.save THEN "sanctions_open" ELSE "cycle"
                /\ call' = Observed("producer", "sanctions", sanctions_file, loaded,
                                    d_local.saving)
           ELSE /\ p_local' = [p_local EXCEPT
                        !.todo = Tail(@),
                        !.evaluated = Put(@, ip, score_record(ip, r))]
                /\ UNCHANGED <<p_pc, call>>
    /\ UNCHANGED <<now, events, files, d_pc, d_local, resp>>

\* apply_sanction's save_json: open, then dump
PSanctionsOpen ==
    /\ p_pc = "sanctions_open"
    /\ sanctions_file' = Truncated
    /\ p_local' = [p_local EXCEPT
            !.saving = Opening(sanctions_file, p_local.saving.data)]
    /\ p_pc' = "sanctions_write"
    /\ UNCHANGED <<now, events, events_file, alerts_file, scores_file, d_pc, d_local,
                   resp, call>>

PSanctionsWritten ==
    /\ p_pc = "sanctions_write"
    /\ sanctions_file' = Saved(p_local.saving.data)
    /\ p_local' = [p_local EXCEPT !.saving = NotSaving]
    /\ p_pc' = "cycle"
    /\ UNCHANGED <<now, events, events_file, alerts_file, scores_file, d_pc, d_local,
                   resp, call>>

\* save_json(ALERT_FILE, alerts): open, then dump
PAlertsOpen ==
    /\ p_pc = "cycle"
    /\ p_local.todo = <<>>
    /\ alerts_file' = Truncated
    /\ p_local' = [p_local EXCEPT !.saving = Opening(alerts_file, p_local.alerts)]
    /\ p_pc' = "alerts_write"
    /\ UNCHANGED <<now, events, events_file, scores_file, sanctions_file, d_pc,
                   d_local, resp, call>>

PAlertsWritten ==
    /\ p_pc = "alerts_write"
    /\ alerts_file' = Saved(p_local.saving.data)
    /\ p_local' = [p_local EXCEPT !.saving = NotSaving]
    /\ p_pc' = "scores_open"
    /\ UNCHANGED <<now, events, events_file, scores_file, sanctions_file, d_pc,
                   d_local, resp, call>>

\* save_json(SCORES_FILE, scores): open, then dump
PScoresOpen ==
    /\ p_pc = "scores_open"
    /\ scores_file' = Truncated
    /\ p_local' = [p_local EXCEPT !.saving = Opening(scores_file, p_local.scores)]
    /\ p_pc' = "scores_write"
    /\ UNCHANGED <<now, events, events_file, alerts_file, sanctions_file, d_pc,
                   d_local, resp, call>>

PScoresWritten ==
    /\ p_pc = "scores_write"
    /\ scores_file' = Saved(p_local.saving.data)
    /\ p_local' = IdleLocal(p_local.appends)
    /\ p_pc' = "idle"
    /\ UNCHANGED <<now, events, events_file, alerts_file, sanctions_file, d_pc,
                   d_local, resp, call>>

\* GET /events, GET /alerts, GET /api/scores: one load_json, returned as it is
ReadOnlyRoutes ==
    [events |-> events_file, alerts |-> alerts_file, scores |-> scores_file]

DGet(name) ==
    /\ d_pc = "idle"
    /\ LET body == dashboard_load_json(ReadOnlyRoutes[name]) IN
        /\ resp' = [op |-> name, status |-> 200, key |-> Key("", ""), body |-> body]
        /\ call' = Observed("dashboard", name, ReadOnlyRoutes[name], body,
                            p_local.saving)
    /\ UNCHANGED <<now, events, files, p_pc, p_local, d_pc, d_local>>

\* GET /api/sanctions: load_json(SANCTIONS_FILE)
DGetSanctionsLoad ==
    /\ d_pc = "idle"
    /\ LET loaded == dashboard_load_json(sanctions_file) IN
        /\ d_local' = [DashboardIdle EXCEPT !.sanctions = loaded]
        /\ call' = Observed("dashboard", "sanctions", sanctions_file, loaded,
                            p_local.saving)
    /\ d_pc' = "gs_scores"
    /\ UNCHANGED <<now, events, files, p_pc, p_local, resp>>

\* GET /api/sanctions: load_json(SCORES_FILE), the loop, and the answer when
\* nothing changed
DGetSanctionsScores ==
    /\ d_pc = "gs_scores"
    /\ LET scores == dashboard_load_json(scores_file)
           r == get_sanctions(d_local.sanctions, scores, now)
       IN  /\ call' = Observed("dashboard", "scores", scores_file, scores,
                               p_local.saving)
           /\ IF r.changed
              THEN /\ d_local' = [d_local EXCEPT
                            !.saving = [before |-> Empty, data |-> r.cleaned]]
                   /\ d_pc' = "gs_open"
                   /\ UNCHANGED resp
              ELSE /\ d_local' = DashboardIdle
                   /\ d_pc' = "idle"
                   /\ resp' = [op |-> "get_sanctions", status |-> 200,
                               key |-> Key("", ""), body |-> r.cleaned]
    /\ UNCHANGED <<now, events, files, p_pc, p_local>>

\* GET /api/sanctions: save_json(SANCTIONS_FILE, cleaned), open then dump, and
\* the answer
DGetSanctionsOpen ==
    /\ d_pc = "gs_open"
    /\ sanctions_file' = Truncated
    /\ d_local' = [d_local EXCEPT
            !.saving = Opening(sanctions_file, d_local.saving.data)]
    /\ d_pc' = "gs_write"
    /\ UNCHANGED <<now, events, events_file, alerts_file, scores_file, p_pc, p_local,
                   resp, call>>

DGetSanctionsWritten ==
    /\ d_pc = "gs_write"
    /\ sanctions_file' = Saved(d_local.saving.data)
    /\ resp' = [op |-> "get_sanctions", status |-> 200, key |-> Key("", ""),
                body |-> d_local.saving.data]
    /\ d_local' = DashboardIdle
    /\ d_pc' = "idle"
    /\ UNCHANGED <<now, events, events_file, alerts_file, scores_file, p_pc, p_local,
                   call>>

\* POST /api/remove-sanction: load_json(SANCTIONS_FILE), and the answer when
\* nothing is saved
DRemoveLoad(s_type, value) ==
    /\ d_pc = "idle"
    /\ LET loaded == dashboard_load_json(sanctions_file)
           r == remove_sanction(loaded, s_type, value)
       IN  /\ call' = IF s_type = "" \/ value = "" THEN call
                      ELSE Observed("dashboard", "sanctions", sanctions_file, loaded,
                                    p_local.saving)
           /\ IF r.save
              THEN /\ d_local' = [DashboardIdle EXCEPT
                            !.key = Key(s_type, value),
                            !.saving = [before |-> Empty, data |-> r.data]]
                   /\ d_pc' = "rm_open"
                   /\ UNCHANGED resp
              ELSE /\ resp' = [op |-> "remove_sanction", status |-> r.status,
                               key |-> Key(s_type, value), body |-> Empty]
                   /\ UNCHANGED <<d_pc, d_local>>
    /\ UNCHANGED <<now, events, files, p_pc, p_local>>

\* POST /api/remove-sanction: save_json(SANCTIONS_FILE, sanctions), open then
\* dump, and the answer
DRemoveOpen ==
    /\ d_pc = "rm_open"
    /\ sanctions_file' = Truncated
    /\ d_local' = [d_local EXCEPT
            !.saving = Opening(sanctions_file, d_local.saving.data)]
    /\ d_pc' = "rm_write"
    /\ UNCHANGED <<now, events, events_file, alerts_file, scores_file, p_pc, p_local,
                   resp, call>>

DRemoveWritten ==
    /\ d_pc = "rm_write"
    /\ sanctions_file' = Saved(d_local.saving.data)
    /\ resp' = [op |-> "remove_sanction", status |-> 200, key |-> d_local.key,
                body |-> Empty]
    /\ d_local' = DashboardIdle
    /\ d_pc' = "idle"
    /\ UNCHANGED <<now, events, events_file, alerts_file, scores_file, p_pc, p_local,
                   call>>

NextConc ==
    \/ \E a \in Appendable : PAppendOpen(a[1], a[2])
    \/ PEventsWritten
    \/ CycleBegin
    \/ PCycleIP
    \/ PSanctionsOpen
    \/ PSanctionsWritten
    \/ PAlertsOpen
    \/ PAlertsWritten
    \/ PScoresOpen
    \/ PScoresWritten
    \/ \E name \in DOMAIN ReadOnlyRoutes : DGet(name)
    \/ DGetSanctionsLoad
    \/ DGetSanctionsScores
    \/ DGetSanctionsOpen
    \/ DGetSanctionsWritten
    \/ \E q \in LiftRequests : DRemoveLoad(q[1], q[2])
    \/ DRemoveOpen
    \/ DRemoveWritten

SpecConc == Init /\ [][NextConc]_vars

\* C7: a load_json of a collection another process is writing returns the
\* whole collection as it was before that write or as it is after it
C7_NoPartialRead ==
    call.fn = "load_json" => call.result = call.before \/ call.result = call.after

-----------------------------------------------------------------------------
(* Unparsable timestamps, under SpecScore *)

\* the events of the call whose date/time parses
parsable_events == SelectSeq(call.events, LAMBDA e : e.time # BadTime)

\* C11: an event whose date/time cannot be parsed adds no timestamp: attack
\* speed, persistence, first_seen and last_seen are those of the list without
\* it, and it is still counted in the attempts
C11_UnparsableTimeIgnored ==
    (call.fn = "calculate_threat_score_ip" /\ parsable_events # <<>>
        /\ call.result.stats # <<>>) =>
        LET timed == calculate_threat_score_ip(parsable_events, call.ip, now)
            got == call.result
        IN  /\ got.components.attack_speed = timed.components.attack_speed
            /\ got.components.persistence = timed.components.persistence
            /\ got.stats.first_seen = timed.stats.first_seen
            /\ got.stats.last_seen = timed.stats.last_seen
            /\ got.stats.total_attempts =
                    Len(SelectSeq(call.events, LAMBDA e : e.ip = call.ip))

-----------------------------------------------------------------------------
(* The Detection Cycle run again: the producer alone, every return of
   detect_threats_by_ip noted with the event list and the clock it had *)

\* the last call of detect_threats_by_ip to return had this event list and this
\* clock
SameCycleAgain ==
    /\ call.fn = "detect_threats_by_ip"
    /\ call.events = events
    /\ call.clock = now

CycleEndNoted ==
    /\ cycle_saves
    /\ call' = [fn |-> "detect_threats_by_ip", events |-> events, clock |-> now]

NextRerun ==
    \/ \E a \in Appendable : AppendEvents(a[1], a[2])
    \/ Tick
    \/ CycleBegin
    \/ CycleIP
    \/ CycleEndNoted

SpecRerun == Init /\ [][NextRerun]_vars

\* C12: a Detection Cycle on the event list and clock of the cycle before it
\* leaves the persisted ThreatScores and the persisted Alerts as that cycle
\* left them
C12_RerunIdempotent ==
    [][(CycleEndNoted /\ SameCycleAgain) =>
            /\ scores_file' = scores_file
            /\ alerts_file' = alerts_file]_vars

\* a second cycle on the same events and clock has scored an alerted IP 31 or
\* more again and is about to save
C12_Witness ==
    /\ SameCycleAgain
    /\ p_pc = "cycle"
    /\ p_local.todo = <<>>
    /\ \E ip \in DOMAIN p_local.evaluated :
        /\ p_local.evaluated[ip].score >= 3100
        /\ ip \in {PersistedAlerts[i].ip : i \in DOMAIN PersistedAlerts}
        /\ Key("IP", ip) \in DOMAIN PersistedScores

-----------------------------------------------------------------------------
(* The quiet scenario, under SpecScore *)

\* C13: 4 SUCCESS events of one IP and one user from "FR", 3 minutes apart,
\* score 0 with every component 0, so that a Detection Cycle (which acts from
\* 31 on) creates nothing for the IP
C13_QuietScenarioScoresZero ==
    (call.fn = "calculate_threat_score_ip" /\ call.events = quiet_events) =>
        /\ call.result.score = 0
        /\ call.result.components = ZeroComponents

-----------------------------------------------------------------------------
(* Severity correction, under Spec *)

\* C14: after a reconciliation pass every surviving sanction, returned and
\* persisted, has the severity the classifier gives the score of the
\* ThreatScore of its key; a sanction with a stale severity stays, with its
\* other fields as they were
C14_SeverityCorrected ==
    [][GetSanctions =>
        LET before == PersistedSanctions
            after == PersistedSanctions'
        IN  /\ resp'.body = after
            /\ \A e \in DOMAIN after :
                /\ after[e].severity = get_severity_level(PersistedScores[e].score)
                /\ after[e] = [before[e] EXCEPT !.severity = after[e].severity]
            /\ \A e \in DOMAIN before :
                    (/\ e \in DOMAIN PersistedScores
                     /\ PersistedScores[e].score >= 3100
                     /\ ~Expired(before[e], now)
                     /\ before[e].severity
                            # get_severity_level(PersistedScores[e].score))
                        => e \in DOMAIN after]_vars

\* a pass has returned and persisted a sanction whose severity it corrected:
\* the permanent block of a CRITICAL evaluation, now with the severity HIGH of
\* the stored score
C14_Witness ==
    /\ resp.op = "get_sanctions"
    /\ resp.body = PersistedSanctions
    /\ \E e \in DOMAIN resp.body :
        /\ resp.body[e].action = SANCTIONS.CRITICAL.action
        /\ resp.body[e].severity = "HIGH"
        /\ e \in DOMAIN PersistedScores
        /\ PersistedScores[e].severity = "HIGH"

-----------------------------------------------------------------------------
(* The detection window: a store longer than the window, with events of the
   scored IP older than it *)

\* how many events of the scored IP lie before the window, at most
MaxOlder == 3

\* by how many events the rest of the store may fall short of the window
MaxShort == 3

\* k events of IP_A, one every second from `start` on
attack_events(k, start, status, ua) ==
    [i \in 1..k |->
        [ip |-> IP_A, user |-> LEGIT_USERS[i], status |-> status, ua |-> ua,
         country |-> "RU", time |-> start + i * 1000]]

\* m events of an IP of the local network, one every second from `start` on
local_events(m, start) ==
    [i \in 1..m |->
        [ip |-> IP_LOCAL, user |-> "ahmed", status |-> "SUCCESS", ua |-> UA_CHROME,
         country |-> "LAN", time |-> start + i * 1000]]

\* a store: `older` events of IP_A, local traffic, then 3 events of IP_A; the 3
\* are the last of the store, and the older ones are before the window when
\* short = 0
store(older, short, status, ua) ==
    attack_events(older, 0, status, ua)
        \o local_events(DETECTION_WINDOW - 3 - short, 10 * 1000)
        \o attack_events(3, (DETECTION_WINDOW + 20) * 1000, "FAIL", UA_HYDRA)

InitWindow ==
    /\ now = (DETECTION_WINDOW + 30) * 1000
    /\ \E older \in 0..MaxOlder, short \in 0..MaxShort,
          status \in {"FAIL", "SUCCESS"}, ua \in {UA_HYDRA, UA_CHROME} :
        /\ events = store(older, short, status, ua)
        /\ events_file = Saved(events)
    /\ alerts_file = NoFile
    /\ scores_file = NoFile
    /\ sanctions_file = NoFile
    /\ p_pc = "idle"
    /\ p_local = IdleLocal(0)
    /\ d_pc = "idle"
    /\ d_local = DashboardIdle
    /\ resp = NoResponse
    /\ call = [fn |-> "none"]

NextWindow == CycleBegin \/ CycleIP \/ CycleEnd \/ GetSanctions

SpecWindow == InitWindow /\ [][NextWindow]_vars

\* C15: what a Detection Cycle computes for an IP is what the trailing window
\* of the store alone gives: the ThreatScore is that of the store without the
\* events before the window
C15_ScoreFromWindowOnly ==
    \A ip \in DOMAIN p_local.evaluated :
        p_local.evaluated[ip] =
            score_record(ip, calculate_threat_score_ip(
                                Last(events, DETECTION_WINDOW), ip, now))

-----------------------------------------------------------------------------
(* Sanction writes beside the dashboard's, under SpecConc *)

\* C16: when a Detection Cycle completes and the dashboard is between
\* requests, every IP the cycle scored 31 or more has a persisted sanction
\* with that score and a persisted ThreatScore under the same key
C16_NoSanctionLost ==
    [][(PScoresWritten /\ d_pc = "idle") =>
        \A ip \in DOMAIN p_local.evaluated :
            p_local.evaluated[ip].score >= 3100 =>
                /\ Key("IP", ip) \in DOMAIN PersistedScores'
                /\ Key("IP", ip) \in DOMAIN PersistedSanctions'
                /\ PersistedSanctions'[Key("IP", ip)].score
                        = p_local.evaluated[ip].score]_vars

====
